---- MODULE Spec2Model ----
(***************************************************************************)
(* Model of harshilgor/ai-hub:                                             *)
(*   src/main.py                  the YouTube channel analysis run         *)
(*   src/scripts/fetch_hf_paper.py  HuggingFacePaperFetcher                *)
(*                                                                         *)
(* Python values: None is the empty sequence, any other optional value v   *)
(* is the one-element sequence <<v>>; a list is a sequence; a dict is a    *)
(* function from its keys.                                                 *)
(***************************************************************************)
EXTENDS Integers, Sequences, FiniteSets, TLC

VARIABLES
    pc,             \* position of the running script / call
    nlp,            \* module global nlp: "unset", "model" or "None"
    summarizer,     \* module global summarizer
    whisper_model,  \* module global whisper_model
    loadFailed,     \* models whose load raised an exception that was caught
    loads,          \* how many times each model was loaded
    used,           \* models invoked so far in this process
    video_urls,     \* list returned by get_channel_videos
    i,              \* loop index of enumerate(video_urls[:3], 1)
    processed,      \* videos whose loop body ran to its end, in order
    exit_status,    \* "running", "0" or "1"
    uncaught,       \* "none", or where an exception escaped to the top level
    transcript,     \* get_transcript's result (optional string)
    m1,             \* outcome of method 1 in the current call
    log,            \* external calls made by the current get_transcript call
    fileExists,     \* temp_audio.mp4 exists in the working directory
    created,        \* the current call's download wrote temp_audio.mp4
    rmFailed,       \* an os.remove of the current call raised
    m2,             \* outcome of method 2 in the current call
    insights,       \* get_insights' result (dict)
    sentOut,        \* what the sentiment scorer did in the current call
    sumOut,         \* what the summarizer did in the current call
    nerOut,         \* what the entity tagger did in the current call
    giLog,          \* analysers invoked by the current get_insights call
    arxiv_id,       \* argument of fetch_paper_metadata
    responses,      \* what each of the three endpoints answers
    jsonErrorIsRequestException,  \* the installed requests raises its own
                    \* JSONDecodeError (a RequestException) from json()
    endpoint,       \* index of the next endpoint of the for loop
    queried,        \* URLs requested so far, in order
    metadata,       \* fetch_paper_metadata's result
    raised          \* exception that escaped fetch_paper_metadata

envVars == <<nlp, summarizer, whisper_model, loadFailed, loads>>
runVars == <<video_urls, i, processed, exit_status, uncaught>>
gtVars == <<transcript, m1, log, fileExists, created, rmFailed, m2>>
giVars == <<insights, sentOut, sumOut, nerOut, giLog>>
fetchVars == <<arxiv_id, responses, jsonErrorIsRequestException, endpoint,
               queried, metadata, raised>>
vars == <<pc, used, envVars, runVars, gtVars, giVars, fetchVars>>

-----------------------------------------------------------------------------
(* Bounds of the model *)

MaxVideos == 4

\* longest tagger output drawn for a direct call of get_insights
MaxSpans == 3
\* polarities are drawn within PolWindow ten-thousandths of a threshold
PolWindow == 5

(* Program constants *)

\* video_urls[:3]
VideoLimit == 3
\* round(polarity, 3): scores are thousandths
ScoreScale == 1000
\* a polarity p of the model stands for p / PolarityScale
PolarityScale == 10 * ScoreScale
\* the 0.1 of "polarity > 0.1" and "polarity < -0.1"
Threshold == PolarityScale \div 10

-----------------------------------------------------------------------------
(* Python values *)

None == <<>>
Some(v) == <<v>>

\* "is not None" in place of truthiness: the empty string passes.
TruthyNotNone(t) == t # <<>>

\* Python truthiness of an optional string: None and "" are falsy.
Truthy(t) == t # None /\ t # Some("")

EmptyDict == [k \in {} |-> None]

\* dict.get(key, default)
Get(d, key, default) == IF key \in DOMAIN d THEN d[key] ELSE default

\* video_urls[:k]
Take(s, k) == SubSeq(s, 1, IF Len(s) < k THEN Len(s) ELSE k)

Models == {"nlp", "summarizer", "whisper"}

-----------------------------------------------------------------------------
(* Module-level model loading, src/main.py lines 20-42 *)

\* spacy.load succeeds, raises OSError (caught), or raises another exception,
\* which "except OSError" does not catch: the import of the module aborts.
load_nlp ==
    /\ pc = "load_nlp"
    /\ loads' = [loads EXCEPT !["nlp"] = @ + 1]
    /\ \/ /\ nlp' = "model"
          /\ pc' = "load_summarizer"
          /\ UNCHANGED <<loadFailed, exit_status, uncaught>>
       \/ /\ nlp' = "None"
          /\ loadFailed' = loadFailed \cup {"nlp"}
          /\ pc' = "load_summarizer"
          /\ UNCHANGED <<exit_status, uncaught>>
       \/ /\ nlp' = "unset"
          /\ loadFailed' = loadFailed \cup {"nlp"}
          /\ pc' = "exited"
          /\ exit_status' = "1"
          /\ uncaught' = "load"
    /\ UNCHANGED <<summarizer, whisper_model, used, video_urls, i, processed>>
    /\ UNCHANGED <<gtVars, giVars, fetchVars>>

\* pipeline("summarization", ...) succeeds or raises; "except Exception".
load_summarizer ==
    /\ pc = "load_summarizer"
    /\ loads' = [loads EXCEPT !["summarizer"] = @ + 1]
    /\ \/ /\ summarizer' = "model"
          /\ UNCHANGED loadFailed
       \/ /\ summarizer' = "None"
          /\ loadFailed' = loadFailed \cup {"summarizer"}
    /\ pc' = "load_whisper"
    /\ UNCHANGED <<nlp, whisper_model, used, video_urls, i, processed,
                   exit_status, uncaught>>
    /\ UNCHANGED <<gtVars, giVars, fetchVars>>

\* whisper.load_model("base") succeeds or raises; "except Exception".
load_whisper ==
    /\ pc = "load_whisper"
    /\ loads' = [loads EXCEPT !["whisper"] = @ + 1]
    /\ \/ /\ whisper_model' = "model"
          /\ UNCHANGED loadFailed
       \/ /\ whisper_model' = "None"
          /\ loadFailed' = loadFailed \cup {"whisper"}
    /\ pc' = "enumerate"
    /\ UNCHANGED <<nlp, summarizer, used, video_urls, i, processed,
                   exit_status, uncaught>>
    /\ UNCHANGED <<gtVars, giVars, fetchVars>>

-----------------------------------------------------------------------------
(* get_channel_videos and the top of __main__, src/main.py lines 47-66, 219-223 *)

\* get_channel_videos returns the list of URLs found, [] on any error.
get_channel_videos ==
    /\ pc = "enumerate"
    /\ \E n \in 0..MaxVideos : video_urls' = [k \in 1..n |-> k]
    /\ pc' = "check_videos"
    /\ UNCHANGED <<nlp, summarizer, whisper_model, loadFailed, loads, used, i,
                   processed, exit_status, uncaught>>
    /\ UNCHANGED <<gtVars, giVars, fetchVars>>

\* if not video_urls: exit(1)
check_videos ==
    /\ pc = "check_videos"
    /\ IF video_urls = <<>>
         THEN pc' = "exited" /\ exit_status' = "1"
         ELSE pc' = "loop" /\ UNCHANGED exit_status
    /\ UNCHANGED <<nlp, summarizer, whisper_model, loadFailed, loads, used,
                   video_urls, i, processed, uncaught>>
    /\ UNCHANGED <<gtVars, giVars, fetchVars>>

\* for i, url in enumerate(video_urls[:3], 1): the next iteration calls
\* get_transcript(url); after the last one the script ends, status 0.
loop ==
    /\ pc = "loop"
    /\ IF i < Len(Take(video_urls, VideoLimit))
         THEN /\ i' = i + 1
              /\ pc' = "gt_method1"
              /\ UNCHANGED exit_status
         ELSE /\ pc' = "exited"
              /\ exit_status' = "0"
              /\ UNCHANGED i
    /\ transcript' = None
    /\ m1' = "none"
    /\ m2' = "none"
    /\ log' = <<>>
    /\ created' = FALSE
    /\ rmFailed' = FALSE
    /\ insights' = EmptyDict
    /\ sentOut' = None
    /\ sumOut' = None
    /\ nerOut' = None
    /\ giLog' = <<>>
    /\ UNCHANGED <<nlp, summarizer, whisper_model, loadFailed, loads, used,
                   video_urls, processed, uncaught, fileExists, fetchVars>>

-----------------------------------------------------------------------------
(* get_transcript, src/main.py lines 69-131 *)

\* gt_method1 with the return of the text left out: the call goes on to
\* method 2 although the captions were fetched.
gt_method1_fallthrough ==
    /\ pc = "gt_method1"
    /\ log' = Append(log, "captions")
    /\ \/ /\ \E t \in {"", "text"} : transcript' = Some(t)
          /\ m1' = "ok"
          /\ pc' = "gt_method2"
       \/ /\ m1' = "failed"
          /\ pc' = "gt_method2"
          /\ UNCHANGED transcript
    /\ UNCHANGED <<used, envVars, runVars, fileExists, created, rmFailed, m2, giVars, fetchVars>>

\* Method 1: transcript_api.fetch and the join of its segments. Success
\* returns the text (which may be the empty string); any exception goes on
\* to method 2.
gt_method1 ==
    /\ pc = "gt_method1"
    /\ log' = Append(log, "captions")
    /\ \/ /\ \E t \in {"", "text"} : transcript' = Some(t)
          /\ m1' = "ok"
          /\ pc' = "gt_return"
       \/ /\ m1' = "failed"
          /\ pc' = "gt_method2"
          /\ UNCHANGED transcript
    /\ UNCHANGED <<used, envVars, runVars, fileExists, created, rmFailed, m2, giVars, fetchVars>>

\* gt_method2 without the "if not whisper_model" check.
gt_method2_unchecked ==
    /\ pc = "gt_method2"
    /\ log' = Append(log, "streams")
    /\ \/ pc' = "gt_except" /\ UNCHANGED m2
       \/ pc' = "gt_return" /\ m2' = "no_stream"
       \/ pc' = "gt_download" /\ UNCHANGED m2
    /\ transcript' = None
    /\ UNCHANGED <<used, envVars, runVars, m1, fileExists, created, rmFailed, giVars, fetchVars>>

\* Method 2 starts in the handler of method 1's exception: without a loaded
\* Whisper model it returns None at once; otherwise YouTube(video_url) and
\* streams.get_audio_only() either raise, find no audio stream (return None)
\* or give the stream to download.
gt_method2 ==
    /\ pc = "gt_method2"
    /\ IF whisper_model # "model"
         THEN /\ m2' = "unavailable"
              /\ pc' = "gt_return"
              /\ UNCHANGED log
         ELSE /\ log' = Append(log, "streams")
              /\ \/ pc' = "gt_except" /\ UNCHANGED m2
                 \/ pc' = "gt_return" /\ m2' = "no_stream"
                 \/ pc' = "gt_download" /\ UNCHANGED m2
    /\ transcript' = None
    /\ UNCHANGED <<used, envVars, runVars, m1, fileExists, created, rmFailed, giVars, fetchVars>>

\* audio_stream.download(filename="temp_audio.mp4"): writes the file and
\* returns its path, or raises, with or without having written the file.
gt_download ==
    /\ pc = "gt_download"
    /\ log' = Append(log, "download")
    /\ \/ /\ fileExists' = TRUE
          /\ created' = TRUE
          /\ pc' = "gt_transcribe"
       \/ /\ fileExists' = TRUE
          /\ created' = TRUE
          /\ pc' = "gt_except"
       \/ /\ pc' = "gt_except"
          /\ UNCHANGED <<fileExists, created>>
    /\ UNCHANGED <<used, envVars, runVars, transcript, m1, rmFailed, m2, giVars, fetchVars>>

\* whisper_model.transcribe(audio_file) and result["text"].
gt_transcribe ==
    /\ pc = "gt_transcribe"
    /\ log' = Append(log, "transcribe")
    /\ used' = used \cup {"whisper"}
    /\ \/ /\ \E t \in {"", "text"} : transcript' = Some(t)
          /\ pc' = "gt_cleanup"
       \/ /\ pc' = "gt_except"
          /\ UNCHANGED transcript
    /\ UNCHANGED <<envVars, runVars, m1, fileExists, created, rmFailed, m2, giVars, fetchVars>>

\* Success path: try: os.remove(audio_file) except: pass; return the text.
gt_cleanup ==
    /\ pc = "gt_cleanup"
    /\ log' = Append(log, "remove")
    /\ \/ fileExists' = FALSE /\ UNCHANGED rmFailed
       \/ rmFailed' = TRUE /\ UNCHANGED fileExists
    /\ m2' = "ok"
    /\ pc' = "gt_return"
    /\ UNCHANGED <<used, envVars, runVars, transcript, m1, created, giVars, fetchVars>>

\* gt_except without the removal of the temporary file.
gt_except_no_cleanup ==
    /\ pc = "gt_except"
    /\ transcript' = None
    /\ m2' = "failed"
    /\ pc' = "gt_return"
    /\ UNCHANGED <<log, fileExists, rmFailed>>
    /\ UNCHANGED <<used, envVars, runVars, m1, created, giVars, fetchVars>>

\* except Exception as e2: remove temp_audio.mp4 if it exists, swallowing a
\* failure of the removal; return None.
gt_except ==
    /\ pc = "gt_except"
    /\ IF fileExists
         THEN /\ log' = Append(log, "remove")
              /\ \/ fileExists' = FALSE /\ UNCHANGED rmFailed
                 \/ rmFailed' = TRUE /\ UNCHANGED fileExists
         ELSE UNCHANGED <<log, fileExists, rmFailed>>
    /\ transcript' = None
    /\ m2' = "failed"
    /\ pc' = "gt_return"
    /\ UNCHANGED <<used, envVars, runVars, m1, created, giVars, fetchVars>>

-----------------------------------------------------------------------------
(* The loop body after get_transcript, src/main.py lines 233-260 *)

\* if transcript: ... get_insights(transcript) ... else: print; next video.
after_transcript ==
    /\ pc = "gt_return"
    /\ IF Truthy(transcript)
         THEN pc' = "get_insights" /\ UNCHANGED processed
         ELSE pc' = "loop" /\ processed' = Append(processed, video_urls[i])
    /\ UNCHANGED <<used, envVars, video_urls, i, exit_status, uncaught, gtVars, giVars, fetchVars>>

-----------------------------------------------------------------------------
(* get_insights, src/main.py lines 134-198 *)

Abs(x) == IF x < 0 THEN -x ELSE x

\* Polarities the sentiment scorer may return: the ends and the middle of
\* [-1, 1] and the values around the two thresholds. The decimal values
\* exactly half way between two thousandths (0.0995, 0.1005) are left out:
\* no float equals them, the floats next to them round as their neighbours.
Polarities ==
    {p \in -PolarityScale..PolarityScale :
        /\ \/ p \in {-PolarityScale, 0, PolarityScale}
           \/ Abs(Abs(p) - Threshold) <= PolWindow
        /\ 2 * (p % (PolarityScale \div ScoreScale)) # PolarityScale \div ScoreScale}

\* The thresholds taken inclusively.
SentimentLabelInclusive(polarity) ==
    IF polarity >= Threshold THEN "Positive"
    ELSE IF polarity <= -Threshold THEN "Negative"
    ELSE "Neutral"

\* The if/elif/else over polarity.
SentimentLabel(polarity) ==
    IF polarity > Threshold THEN "Positive"
    ELSE IF polarity < -Threshold THEN "Negative"
    ELSE "Neutral"

\* The digits after the third decimal cut off instead of rounded.
Round3Truncate(polarity) ==
    LET step == PolarityScale \div ScoreScale
    IN  {IF polarity >= 0 THEN polarity \div step ELSE -((-polarity) \div step)}

\* round(polarity, 3), in thousandths. A polarity of the model exactly half
\* way between two thousandths stands for floats on either side of the
\* half, which round() sends either way.
Round3(polarity) ==
    LET q == polarity \div (PolarityScale \div ScoreScale)
        r == polarity % (PolarityScale \div ScoreScale)
        half == (PolarityScale \div ScoreScale) \div 2
    IN  IF r < half THEN {q}
        ELSE IF r > half THEN {q + 1}
        ELSE {q, q + 1}

KeptLabels == {"PERSON", "ORG", "GPE", "PRODUCT"}

\* Spans (ent.text, ent.label_) the tagger may return.
Spans == {<<"Paris", "GPE">>, <<"Paris", "ORG">>, <<"John", "PERSON">>,
          <<"today", "DATE">>}

SeqsUpTo(S, n) == UNION {[1..k -> S] : k \in 0..n}

\* for ent in doc.ents: if ent.label_ in [...]: entities.append(...)
RECURSIVE FilterEntities(_)
FilterEntities(ents) ==
    IF ents = <<>> THEN <<>>
    ELSE LET rest == FilterEntities(Tail(ents))
         IN  IF Head(ents)[2] \in KeptLabels
               THEN <<Head(ents)>> \o rest
               ELSE rest

\* for entity in entities: if entity not in seen: seen.add; append
RECURSIVE UniqueEntities(_, _, _)
UniqueEntities(entities, seen, unique_entities) ==
    IF entities = <<>> THEN unique_entities
    ELSE LET entity == Head(entities)
         IN  IF entity \notin seen
               THEN UniqueEntities(Tail(entities), seen \cup {entity},
                                   Append(unique_entities, entity))
               ELSE UniqueEntities(Tail(entities), seen, unique_entities)

\* Insight 1: TextBlob(...).sentiment.polarity raised, or gave a polarity.
SentimentInsight(out, score) ==
    IF out.raised THEN None
    ELSE Some([label |-> SentimentLabel(out.polarity), score |-> score])

\* Insight 2: None without a summarizer or when it raised.
SummaryInsight(model, out) ==
    IF model = "model" /\ ~out.raised THEN Some(out.text) ELSE None

\* Insight 3 without the removal of duplicates.
EntitiesInsightNoDedup(model, out) ==
    IF model = "model" /\ ~out.raised THEN FilterEntities(out.ents) ELSE <<>>

\* Insight 3: [] without a tagger or when it raised.
EntitiesInsight(model, out) ==
    IF model = "model" /\ ~out.raised
      THEN UniqueEntities(FilterEntities(out.ents), {}, <<>>)
      ELSE <<>>

\* The three analyses under one try block: a failure of the sentiment
\* analysis leaves the other two undone.
InsightsOneTry(s, score, u, e) ==
    IF s.raised
      THEN [sentiment |-> <<>>, summary |-> <<>>, entities |-> <<>>]
      ELSE [sentiment |-> SentimentInsight(s, score),
            summary |-> SummaryInsight(summarizer, u),
            entities |-> EntitiesInsight(nlp, e)]

\* The dict built by the three try blocks, one after the other.
Insights(s, score, u, e) ==
    [sentiment |-> SentimentInsight(s, score),
     summary |-> SummaryInsight(summarizer, u),
     entities |-> EntitiesInsight(nlp, e)]

\* What each collaborator may do in one call.
SentimentOutcomes(polarities) ==
    {[raised |-> TRUE, polarity |-> 0]}
        \cup {[raised |-> FALSE, polarity |-> p] : p \in polarities}

SummaryOutcomes ==
    {[raised |-> TRUE, text |-> ""], [raised |-> FALSE, text |-> "summary"]}

EntityOutcomes(spanSeqs) ==
    {[raised |-> TRUE, ents |-> <<>>]}
        \cup {[raised |-> FALSE, ents |-> e] : e \in spanSeqs}

\* The whole of get_insights(transcript), the collaborators' results drawn
\* from the given sets.
GetInsights(polarities, spanSeqs) ==
    /\ pc = "get_insights"
    /\ IF ~Truthy(transcript)
         THEN /\ insights' = EmptyDict
              /\ sentOut' = None
              /\ sumOut' = None
              /\ nerOut' = None
              /\ giLog' = <<>>
              /\ UNCHANGED used
         ELSE \E s \in SentimentOutcomes(polarities),
                 u \in IF summarizer = "model" THEN SummaryOutcomes ELSE {None},
                 e \in IF nlp = "model" THEN EntityOutcomes(spanSeqs) ELSE {None} :
              \E score \in IF s.raised THEN {0} ELSE Round3(s.polarity) :
                /\ sentOut' = Some(s)
                /\ sumOut' = IF summarizer = "model" THEN Some(u) ELSE None
                /\ nerOut' = IF nlp = "model" THEN Some(e) ELSE None
                /\ insights' = Insights(s, score, u, e)
                /\ giLog' = <<"sentiment">>
                     \o (IF summarizer = "model" THEN <<"summarizer">> ELSE <<>>)
                     \o (IF nlp = "model" THEN <<"nlp">> ELSE <<>>)
                /\ used' = used
                     \cup (IF summarizer = "model" THEN {"summarizer"} ELSE {})
                     \cup (IF nlp = "model" THEN {"nlp"} ELSE {})
    /\ pc' = "gi_return"
    /\ UNCHANGED <<envVars, runVars, gtVars, fetchVars>>

\* get_insights as __main__ calls it.
get_insights ==
    GetInsights({-Threshold - 1, 0, Threshold + 1}, SeqsUpTo(Spans, 1))

\* get_insights called on its own, on any transcript.
get_insights_call ==
    GetInsights(Polarities, SeqsUpTo(Spans, MaxSpans))

\* Printing the insights: insights.get('sentiment', {}).get('label', 'N/A')
\* raises AttributeError when the stored sentiment is None, and nothing
\* catches it; otherwise the entities and the summary are printed and the
\* loop goes on.
print_insights ==
    /\ pc = "gi_return"
    /\ IF Get(insights, "sentiment", Some(EmptyDict)) = None
         THEN /\ pc' = "exited"
              /\ exit_status' = "1"
              /\ uncaught' = "print"
              /\ UNCHANGED processed
         ELSE /\ pc' = "loop"
              /\ processed' = Append(processed, video_urls[i])
              /\ UNCHANGED <<exit_status, uncaught>>
    /\ UNCHANGED <<used, envVars, video_urls, i, gtVars, giVars, fetchVars>>

-----------------------------------------------------------------------------
(* The run of src/main.py as a script *)

Init ==
    /\ pc = "load_nlp"
    /\ nlp = "unset"
    /\ summarizer = "unset"
    /\ whisper_model = "unset"
    /\ loadFailed = {}
    /\ loads = [m \in Models |-> 0]
    /\ used = {}
    /\ video_urls = <<>>
    /\ i = 0
    /\ processed = <<>>
    /\ exit_status = "running"
    /\ uncaught = "none"
    /\ transcript = None
    /\ m1 = "none"
    /\ m2 = "none"
    /\ log = <<>>
    /\ fileExists = FALSE
    /\ created = FALSE
    /\ rmFailed = FALSE
    /\ insights = EmptyDict
    /\ sentOut = None
    /\ sumOut = None
    /\ nerOut = None
    /\ giLog = <<>>
    /\ arxiv_id = <<>>
    /\ responses = <<>>
    /\ jsonErrorIsRequestException = TRUE
    /\ endpoint = 0
    /\ queried = <<>>
    /\ metadata = None
    /\ raised = "none"

Next ==
    \/ load_nlp
    \/ load_summarizer
    \/ load_whisper
    \/ get_channel_videos
    \/ check_videos
    \/ loop
    \/ gt_method1
    \/ gt_method2
    \/ gt_download
    \/ gt_transcribe
    \/ gt_cleanup
    \/ gt_except
    \/ after_transcript
    \/ get_insights
    \/ print_insights

Spec == Init /\ [][Next]_vars

-----------------------------------------------------------------------------
(* get_insights called on its own: any transcript, either model present or
   not (src/main.py lines 134-198) *)

InitInsights ==
    /\ pc = "get_insights"
    /\ nlp \in {"model", "None"}
    /\ summarizer \in {"model", "None"}
    /\ whisper_model = "None"
    /\ loadFailed = {}
    /\ loads = [m \in Models |-> 1]
    /\ used = {}
    /\ video_urls = <<>>
    /\ i = 0
    /\ processed = <<>>
    /\ exit_status = "running"
    /\ uncaught = "none"
    /\ transcript \in {None, Some(""), Some("text")}
    /\ m1 = "none"
    /\ m2 = "none"
    /\ log = <<>>
    /\ fileExists = FALSE
    /\ created = FALSE
    /\ rmFailed = FALSE
    /\ insights = EmptyDict
    /\ sentOut = None
    /\ sumOut = None
    /\ nerOut = None
    /\ giLog = <<>>
    /\ arxiv_id = <<>>
    /\ responses = <<>>
    /\ jsonErrorIsRequestException = TRUE
    /\ endpoint = 0
    /\ queried = <<>>
    /\ metadata = None
    /\ raised = "none"

NextInsights == get_insights_call

SpecInsights == InitInsights /\ [][NextInsights]_vars

-----------------------------------------------------------------------------
(* HuggingFacePaperFetcher.fetch_paper_metadata,
   src/scripts/fetch_hf_paper.py lines 29-62 *)

\* A string is modelled as the sequence of its pieces.
BASE_URL == <<"https://huggingface.co/api">>

\* str.replace(piece, '')
RECURSIVE Remove(_, _)
Remove(str, piece) ==
    IF str = <<>> THEN <<>>
    ELSE IF Head(str) = piece THEN Remove(Tail(str), piece)
    ELSE <<Head(str)>> \o Remove(Tail(str), piece)

CleanId(id) == Remove(Remove(id, "arxiv:"), "arXiv:")

\* The list endpoints with its last two entries exchanged.
EndpointsSwapped(id) ==
    << BASE_URL \o <<"/papers/">> \o CleanId(id),
       BASE_URL \o <<"/papers/", "arXiv:">> \o CleanId(id),
       BASE_URL \o <<"/papers/", "arxiv:">> \o CleanId(id) >>

\* The list endpoints, in the order the loop takes them.
Endpoints(id) ==
    << BASE_URL \o <<"/papers/">> \o CleanId(id),
       BASE_URL \o <<"/papers/", "arxiv:">> \o CleanId(id),
       BASE_URL \o <<"/papers/", "arXiv:">> \o CleanId(id) >>

ArxivIds == {<<"2301.00001">>, <<"arxiv:", "2301.00001">>,
             <<"arXiv:", "2301.00001">>, <<"2301.00001", "v1">>}

\* What session.get(endpoint, timeout=10) may do: raise a RequestException,
\* or answer with a status and a body that is a JSON document, the JSON
\* value null, or no JSON at all.
Responses ==
    {[raises |-> TRUE, status |-> 0, body |-> "none"]}
        \cup {[raises |-> FALSE, status |-> 200, body |-> b] :
                 b \in {"document", "null", "invalid"}}
        \cup {[raises |-> FALSE, status |-> st, body |-> "invalid"] :
                 st \in {404, 500}}

\* response.json() of a body that parses: the document served at the URL,
\* or None for the JSON value null.
Json(url, body) == IF body = "null" THEN None ELSE Some([paper |-> url])

\* One iteration of "for endpoint in endpoints", or the return None after
\* the loop.
fetch_paper_metadata ==
    /\ pc = "fetch"
    /\ IF endpoint > Len(Endpoints(arxiv_id))
         THEN /\ metadata' = None
              /\ pc' = "fetch_return"
              /\ UNCHANGED <<endpoint, queried, raised>>
         ELSE LET url == Endpoints(arxiv_id)[endpoint]
                  response == responses[endpoint]
              IN  /\ queried' = Append(queried, url)
                  /\ IF response.raises
                       THEN /\ endpoint' = endpoint + 1
                            /\ UNCHANGED <<pc, metadata, raised>>
                     ELSE IF response.status = 200
                       THEN IF response.body # "invalid"
                              THEN /\ metadata' = Json(url, response.body)
                                   /\ pc' = "fetch_return"
                                   /\ UNCHANGED <<endpoint, raised>>
                            ELSE IF jsonErrorIsRequestException
                              THEN /\ endpoint' = endpoint + 1
                                   /\ UNCHANGED <<pc, metadata, raised>>
                            ELSE /\ raised' = "ValueError"
                                 /\ pc' = "fetch_raised"
                                 /\ UNCHANGED <<endpoint, metadata>>
                     ELSE /\ endpoint' = endpoint + 1
                          /\ UNCHANGED <<pc, metadata, raised>>
    /\ UNCHANGED <<arxiv_id, responses, jsonErrorIsRequestException>>
    /\ UNCHANGED <<used, envVars, runVars, gtVars, giVars>>

InitFetch ==
    /\ pc = "fetch"
    /\ nlp = "unset"
    /\ summarizer = "unset"
    /\ whisper_model = "unset"
    /\ loadFailed = {}
    /\ loads = [m \in Models |-> 0]
    /\ used = {}
    /\ video_urls = <<>>
    /\ i = 0
    /\ processed = <<>>
    /\ exit_status = "running"
    /\ uncaught = "none"
    /\ transcript = None
    /\ m1 = "none"
    /\ m2 = "none"
    /\ log = <<>>
    /\ fileExists = FALSE
    /\ created = FALSE
    /\ rmFailed = FALSE
    /\ insights = EmptyDict
    /\ sentOut = None
    /\ sumOut = None
    /\ nerOut = None
    /\ giLog = <<>>
    /\ arxiv_id \in ArxivIds
    /\ responses \in [DOMAIN Endpoints(arxiv_id) -> Responses]
    /\ jsonErrorIsRequestException \in BOOLEAN
    /\ endpoint = 1
    /\ queried = <<>>
    /\ metadata = None
    /\ raised = "none"

NextFetch == fetch_paper_metadata

SpecFetch == InitFetch /\ [][NextFetch]_vars

-----------------------------------------------------------------------------
(* Properties of get_transcript, checked under Spec *)

Count(s, e) == Cardinality({j \in DOMAIN s : s[j] = e})

FallbackCalls == {"streams", "download", "transcribe"}

\* C1: in every call of get_transcript the captions retrieval is attempted
\* first and exactly once; the audio download and the speech-to-text
\* transcription are attempted at most once each and only after the captions
\* attempt has failed; when the captions method returned text, neither is
\* invoked.
C1_CaptionsFirstFallbackOnce ==
    /\ log # <<>> => log[1] = "captions"
    /\ Count(log, "captions") <= 1
    /\ pc = "gt_return" => Count(log, "captions") = 1
    /\ \A c \in FallbackCalls : Count(log, c) <= 1
    /\ \A j \in DOMAIN log :
         log[j] \in FallbackCalls => j > 1 /\ log[1] = "captions" /\ m1 = "failed"
    /\ \A j, k \in DOMAIN log :
         log[j] = "download" /\ log[k] = "transcribe" => j < k
    /\ m1 = "ok" => \A j \in DOMAIN log : log[j] \notin FallbackCalls \cup {"remove"}

\* A call that fell back after the captions failed and transcribed the audio.
C1_Witness ==
    /\ pc = "gt_return"
    /\ m1 = "failed"
    /\ m2 = "ok"
    /\ log = <<"captions", "streams", "download", "transcribe", "remove">>

\* C2: when the fallback's download created temp_audio.mp4, the file is gone
\* when get_transcript returns, after a successful transcription (the text is
\* returned) and after download or transcription raised (None is returned),
\* unless the removal itself failed; a failed removal is swallowed: the
\* returned value is the same and nothing is raised to the caller.
C2_TempFileRemoved ==
    pc = "gt_return" /\ created =>
        /\ ~rmFailed => ~fileExists
        /\ m2 \in {"ok", "failed"}
        /\ m2 = "ok" => transcript # None /\ Count(log, "transcribe") = 1
        /\ m2 = "failed" => transcript = None
        /\ uncaught = "none" /\ exit_status = "running"

\* The download wrote the file, the transcription raised, the handler removed
\* the file and the call returned None.
C2_Witness ==
    /\ pc = "gt_return"
    /\ created
    /\ m2 = "failed"
    /\ log = <<"captions", "streams", "download", "transcribe", "remove">>
    /\ ~rmFailed
    /\ ~fileExists
    /\ transcript = None

\* C6: when the captions method fails and the Whisper model was not loaded,
\* get_transcript returns None without attempting a download or a
\* transcription, and temp_audio.mp4 is absent after the call.
C6_NoWhisperNoFallback ==
    pc = "gt_return" /\ m1 = "failed" /\ whisper_model # "model" =>
        /\ transcript = None
        /\ log = <<"captions">>
        /\ ~created
        /\ ~fileExists

\* The second video of a run without Whisper, its captions failed.
C6_Witness ==
    /\ pc = "gt_return"
    /\ m1 = "failed"
    /\ whisper_model = "None"
    /\ "whisper" \in loadFailed
    /\ i = 2
    /\ transcript = None

-----------------------------------------------------------------------------
(* Properties of the run, checked under Spec *)

IsPrefix(s, t) == Len(s) <= Len(t) /\ SubSeq(t, 1, Len(s)) = s

\* get_channel_videos has returned.
Enumerated ==
    pc \notin {"load_nlp", "load_summarizer", "load_whisper", "enumerate"}
        /\ uncaught # "load"

\* C3: a run whose enumeration yields at least one video never aborts and
\* never exits with a non-zero status, whatever fails while the videos are
\* processed; the first min(3, n) videos are processed in order, one after
\* the other, and the run ends normally. The run exits with status 1 exactly
\* when the enumeration yields no video.
C3_RunNeverAborts ==
    Enumerated =>
        /\ video_urls # <<>> => uncaught = "none" /\ exit_status # "1"
        /\ exit_status = "1" <=> (pc = "exited" /\ video_urls = <<>>)
        /\ IsPrefix(processed, Take(video_urls, VideoLimit))
        /\ pc = "exited" /\ video_urls # <<>> =>
             processed = Take(video_urls, VideoLimit)

\* C7: a failure to load one of the three models never aborts the process;
\* the capability stays off for the whole process: the model is never
\* invoked and never loaded again.
C7_LoadFailureDegrades ==
    \A m \in loadFailed :
        /\ uncaught # "load"
        /\ exit_status # "1" \/ Enumerated
        /\ loads[m] = 1
        /\ m \notin used
        /\ m = "nlp" => nlp = "None"
        /\ m = "summarizer" => summarizer = "None"
        /\ m = "whisper" => whisper_model = "None"

\* What does hold of a model whose load failure was caught: it is off, not
\* loaded again and never invoked, its results are absent, and the other
\* analyses run.
C7_CaughtLoadFailureDegrades ==
    uncaught # "load" =>
        /\ \A m \in loadFailed : loads[m] = 1 /\ m \notin used
        /\ "nlp" \in loadFailed => nlp = "None"
        /\ "summarizer" \in loadFailed => summarizer = "None"
        /\ "whisper" \in loadFailed => whisper_model = "None"
        /\ pc = "gi_return" /\ "nlp" \in loadFailed =>
             insights["entities"] = <<>> /\ giLog[1] = "sentiment"
        /\ pc = "gi_return" /\ "summarizer" \in loadFailed =>
             insights["summary"] = None /\ giLog[1] = "sentiment"
        /\ pc = "gi_return" /\ nlp = "model" => "nlp" \in used
        /\ pc = "gi_return" /\ summarizer = "model" => "summarizer" \in used

-----------------------------------------------------------------------------
(* Properties of get_insights, checked under SpecInsights *)

InsightKeys == {"sentiment", "summary", "entities"}

NonEmptyTranscript == Len(transcript) = 1 /\ transcript[1] # ""

Summarized == sumOut # None /\ ~sumOut[1].raised
Tagged == nerOut # None /\ ~nerOut[1].raised
Scored == sentOut # None /\ ~sentOut[1].raised

\* C4: on a non-empty transcript the three analyses fail soft one by one: an
\* exception in one makes that field None (sentiment, summary) or []
\* (entities); the other two are still run and store what they store without
\* that exception; get_insights never raises and the result has all three
\* fields.
C4_AnalysesFailSoftIndependently ==
    pc = "gi_return" /\ NonEmptyTranscript =>
        /\ DOMAIN insights = InsightKeys
        /\ uncaught = "none"
        /\ sentOut # None
        /\ sumOut # None <=> summarizer = "model"
        /\ nerOut # None <=> nlp = "model"
        /\ giLog = <<"sentiment">>
             \o (IF summarizer = "model" THEN <<"summarizer">> ELSE <<>>)
             \o (IF nlp = "model" THEN <<"nlp">> ELSE <<>>)
        /\ IF Scored
             THEN /\ insights["sentiment"] # None
                  /\ insights["sentiment"][1].label = SentimentLabel(sentOut[1].polarity)
                  /\ insights["sentiment"][1].score \in Round3(sentOut[1].polarity)
             ELSE insights["sentiment"] = None
        /\ insights["summary"] = IF Summarized THEN Some(sumOut[1].text) ELSE None
        /\ insights["entities"] =
             IF Tagged THEN UniqueEntities(FilterEntities(nerOut[1].ents), {}, <<>>)
             ELSE <<>>

\* The sentiment analysis raised; the summary and the entities are stored.
C4_Witness ==
    /\ pc = "gi_return"
    /\ sentOut # None /\ sentOut[1].raised
    /\ Summarized
    /\ Tagged
    /\ insights["sentiment"] = None
    /\ insights["summary"] = Some("summary")
    /\ insights["entities"] = << <<"John", "PERSON">>, <<"Paris", "GPE">> >>

\* An empty or absent transcript.
EmptyTranscript == transcript = <<>> \/ transcript = <<"">>

Absent(d, key) == key \notin DOMAIN d \/ d[key] = None

\* C5 as stated: on an empty or absent transcript get_insights returns at
\* once, without invoking the sentiment scorer, the summarizer or the tagger,
\* and the returned bundle has no sentiment, no summary and an empty entity
\* list.
C5_EmptyTranscriptBundle ==
    pc = "gi_return" /\ EmptyTranscript =>
        /\ giLog = <<>>
        /\ used = {}
        /\ Absent(insights, "sentiment")
        /\ Absent(insights, "summary")
        /\ "entities" \in DOMAIN insights
        /\ insights["entities"] = <<>>

\* C5 as amended: on an empty or absent transcript get_insights returns at
\* once, without invoking the sentiment scorer, the summarizer or the tagger,
\* and returns the empty dict: no sentiment, no summary and no entities
\* field; reading the entities with the default [] gives an empty list.
C5_EmptyTranscriptEmptyDict ==
    pc = "gi_return" /\ EmptyTranscript =>
        /\ giLog = <<>>
        /\ used = {}
        /\ sentOut = None /\ sumOut = None /\ nerOut = None
        /\ DOMAIN insights = {}
        /\ Get(insights, "entities", <<>>) = <<>>

\* get_insights("") returned, both models loaded.
C5_Witness ==
    /\ pc = "gi_return"
    /\ transcript = Some("")
    /\ nlp = "model"
    /\ summarizer = "model"
    /\ insights = EmptyDict

\* C8: the stored label is Positive exactly when the polarity is above 0.1,
\* Negative exactly when it is below -0.1, and Neutral otherwise, 0.1 and
\* -0.1 included; exactly one of the three labels is stored.
C8_LabelThresholds ==
    pc = "gi_return" /\ Scored =>
        LET p == sentOut[1].polarity
            label == insights["sentiment"][1].label
        IN  /\ label \in {"Positive", "Negative", "Neutral"}
            /\ label = "Positive" <=> 10 * p > PolarityScale
            /\ label = "Negative" <=> 10 * p < -PolarityScale
            /\ label = "Neutral" <=> (-PolarityScale <= 10 * p /\ 10 * p <= PolarityScale)

\* A polarity of exactly 0.1 stored as Neutral.
C8_Witness ==
    /\ pc = "gi_return"
    /\ Scored
    /\ 10 * sentOut[1].polarity = PolarityScale
    /\ insights["sentiment"][1].label = "Neutral"

FirstIndex(s, x) == CHOOSE j \in DOMAIN s : s[j] = x /\ \A k \in 1..(j - 1) : s[k] # x

\* C9: the stored entities are the tagger's spans restricted to the
\* categories PERSON, ORG, GPE and PRODUCT and reduced to the first
\* occurrence of each (text, category) pair: no pair twice, in the order of
\* first appearance, every qualifying pair exactly once.
C9_EntitiesFilteredUnique ==
    pc = "gi_return" /\ Tagged =>
        LET ents == nerOut[1].ents
            entities == insights["entities"]
        IN  /\ \A j \in DOMAIN entities :
                 /\ entities[j][2] \in {"PERSON", "ORG", "GPE", "PRODUCT"}
                 /\ \E k \in DOMAIN ents : ents[k] = entities[j]
            /\ \A j, k \in DOMAIN entities : j # k => entities[j] # entities[k]
            /\ \A k \in DOMAIN ents :
                 ents[k][2] \in {"PERSON", "ORG", "GPE", "PRODUCT"} =>
                     \E j \in DOMAIN entities : entities[j] = ents[k]
            /\ \A j, k \in DOMAIN entities :
                 j < k => FirstIndex(ents, entities[j]) < FirstIndex(ents, entities[k])

\* A repeated pair and a span of another category are dropped.
C9_Witness ==
    /\ pc = "gi_return"
    /\ Tagged
    /\ nerOut[1].ents = << <<"Paris", "GPE">>, <<"today", "DATE">>, <<"Paris", "GPE">> >>
    /\ insights["entities"] = << <<"Paris", "GPE">> >>

-----------------------------------------------------------------------------
(* Properties of fetch_paper_metadata, checked under SpecFetch *)

\* papers/<id>, papers/arxiv:<id>, papers/arXiv:<id>, <id> without a prefix.
Candidates ==
    LET id == SelectSeq(arxiv_id, LAMBDA piece : piece \notin {"arxiv:", "arXiv:"})
    IN  [k \in 1..3 |->
            <<"https://huggingface.co/api", "/papers/">>
                \o <<<<>>, <<"arxiv:">>, <<"arXiv:">>>>[k] \o id]

Answered200(k) == ~responses[k].raises /\ responses[k].status = 200
Parsed200(k) == Answered200(k) /\ responses[k].body # "invalid"

FetchOver == pc \in {"fetch_return", "fetch_raised"}

\* C10 as stated: the three endpoints are queried in the fixed order, each at
\* most once; the JSON body of the first endpoint answering 200 is returned
\* and no endpoint is queried after it; a 404, another status or a request
\* exception moves on to the next endpoint; None is returned exactly when no
\* endpoint answered 200; no request exception reaches the caller.
C10_FirstOkEndpoint ==
    FetchOver =>
        /\ IsPrefix(queried, Candidates)
        /\ raised # "RequestException"
        /\ \A k \in 1..3 :
             Answered200(k) /\ (\A j \in 1..(k - 1) : ~Answered200(j)) =>
                 /\ pc = "fetch_return"
                 /\ metadata = Some([paper |-> Candidates[k]])
                 /\ Len(queried) = k
        /\ (pc = "fetch_return" /\ metadata = None)
             <=> (\A k \in 1..3 : ~Answered200(k))
        /\ (\A k \in 1..3 : ~Answered200(k)) => queried = Candidates

\* C10 as amended: the three endpoints are queried in the fixed order, each
\* at most once; when the call returns, it returns the parsed body of the
\* first endpoint answering 200 with a body that parses as JSON (None when
\* that body is the JSON value null) and has queried no endpoint after it; a
\* 404, another status, a request exception, or a 200 whose body does not
\* parse when the library's decode error is a request exception, moves on to
\* the next endpoint; a returned None means that no endpoint answered 200
\* with a parseable body or that the first such body was null; no request
\* exception reaches the caller, but a 200 with an unparseable body raises
\* ValueError to the caller when the library's decode error is not a request
\* exception.
C10_FirstParsedEndpoint ==
    FetchOver =>
        /\ IsPrefix(queried, Candidates)
        /\ raised # "RequestException"
        /\ pc = "fetch_return" =>
             /\ raised = "none"
             /\ \A k \in 1..3 :
                  Parsed200(k) /\ (\A j \in 1..(k - 1) : ~Parsed200(j)) =>
                      /\ metadata = IF responses[k].body = "null" THEN None
                                    ELSE Some([paper |-> Candidates[k]])
                      /\ Len(queried) = k
             /\ (\A k \in 1..3 : ~Parsed200(k)) =>
                  metadata = None /\ queried = Candidates
             /\ metadata = None <=>
                  \/ \A k \in 1..3 : ~Parsed200(k)
                  \/ \E k \in 1..3 :
                       /\ Parsed200(k)
                       /\ responses[k].body = "null"
                       /\ \A j \in 1..(k - 1) : ~Parsed200(j)
        /\ pc = "fetch_raised" =>
             /\ raised = "ValueError"
             /\ ~jsonErrorIsRequestException
             /\ Answered200(Len(queried))
             /\ responses[Len(queried)].body = "invalid"
             /\ \A j \in 1..(Len(queried) - 1) : ~Answered200(j)
        /\ jsonErrorIsRequestException => pc = "fetch_return"

\* The first endpoint answered 500, the second 200 without JSON, and the
\* third endpoint's document was returned.
C10_Witness ==
    /\ pc = "fetch_return"
    /\ arxiv_id = <<"arXiv:", "2301.00001">>
    /\ responses[1].status = 500
    /\ Answered200(2) /\ responses[2].body = "invalid"
    /\ Parsed200(3)
    /\ Len(queried) = 3
    /\ metadata = Some([paper |-> <<"https://huggingface.co/api", "/papers/",
                                     "arXiv:", "2301.00001">>])

-----------------------------------------------------------------------------
(* The stored label against the stored score, checked under SpecInsights *)

\* C11 as stated: the stored label and the stored score (the polarity
\* rounded to 3 decimal places) agree under the thresholds: Positive exactly
\* when the score is above 0.1, Negative exactly when it is below -0.1,
\* Neutral otherwise; the score lies in [-1.0, 1.0].
C11_LabelAgreesWithScore ==
    pc = "gi_return" /\ Scored =>
        LET label == insights["sentiment"][1].label
            score == insights["sentiment"][1].score
        IN  /\ label = "Positive" <=> 10 * score > ScoreScale
            /\ label = "Negative" <=> 10 * score < -ScoreScale
            /\ label = "Neutral" <=> (-ScoreScale <= 10 * score /\ 10 * score <= ScoreScale)
            /\ -ScoreScale <= score /\ score <= ScoreScale

\* C11 as amended: the label follows the unrounded polarity, the score is
\* the polarity rounded to the nearest thousandth, so they agree only up to
\* the rounding: a score above 0.1 comes with Positive and a score below -0.1
\* with Negative; Positive comes with a score of at least 0.1, Negative with
\* a score of at most -0.1, Neutral with a score in [-0.1, 0.1]; the score
\* lies in [-1.0, 1.0].
C11_LabelAgreesUpToRounding ==
    pc = "gi_return" /\ Scored =>
        LET p == sentOut[1].polarity
            label == insights["sentiment"][1].label
            score == insights["sentiment"][1].score
        IN  /\ 2 * (10 * score - p) <= 10 /\ 2 * (p - 10 * score) <= 10
            /\ 10 * score > ScoreScale => label = "Positive"
            /\ 10 * score < -ScoreScale => label = "Negative"
            /\ label = "Positive" => 10 * score >= ScoreScale /\ 10 * p > PolarityScale
            /\ label = "Negative" => 10 * score <= -ScoreScale /\ 10 * p < -PolarityScale
            /\ label = "Neutral" => (-ScoreScale <= 10 * score /\ 10 * score <= ScoreScale)
            /\ -ScoreScale <= score /\ score <= ScoreScale

\* A polarity of 0.1004: the label is Positive, the score is 0.1.
C11_Witness ==
    /\ pc = "gi_return"
    /\ Scored
    /\ 10 * sentOut[1].polarity = PolarityScale + 40
    /\ insights["sentiment"][1].label = "Positive"
    /\ 10 * insights["sentiment"][1].score = ScoreScale

====
